---- MODULE Spec2Model ----
(***************************************************************************)
(* NearestNeighborsFLANN<_T, _Dist>                                        *)
(* (src/src/ompl/datastructures/NearestNeighborsFLANN.h): the wrapper that *)
(* keeps a std::vector<_T> data_ and a flann::Index over the addresses of  *)
(* its elements.                                                           *)
(*                                                                         *)
(* The vector is modelled as its allocated block: data_ is the block       *)
(* (Len = capacity()), len is size().  A point of the index is the address *)
(* it was given: a slot of the current block ("cur") or of the block that  *)
(* push_back freed under the live index ("old").  Positions are 1-based:   *)
(* FLANN's id i is position i+1.                                           *)
(*                                                                         *)
(* The FLANN index is the exact linear one: knnSearch orders by            *)
(* (distance, id).  std::vector grows as libstdc++ does (doubling in       *)
(* push_back, exact fit in reserve and in copy assignment, capacity kept   *)
(* by clear()).                                                            *)
(***************************************************************************)
EXTENDS Integers, Sequences, FiniteSets, TLC

\* ------------------------------------------------------------------ bounds
\* elements are 1..MaxElem
MaxElem == 2

\* most points the index holds
MaxPoints == 3

\* longest sequence given to add(const std::vector<_T>&)
MaxBatch == 1

\* most points of the runs that only call add(const _T&)
MaxGrow == 6

\* most points of the runs that change the configuration
MaxConfig == 2

\* most points of the runs that compare a cleared store with a fresh one
MaxTrip == 3
MaxFill == 2

\* most points of the runs that change the search parameters
MaxParams == 2

\* ------------------------------------------------------------------ inputs
Elements == 1..MaxElem

\* a slot of the block that holds no constructed element
Raw == 0

DistanceFunctions == {"abs", "coarse"}

IndexParams == {"Linear", "KDTree"}

DefaultChecks == 32

ChecksValues == {DefaultChecks, 8}

Radii == 0..MaxElem

\* the k of the nearestK calls
Ks == {1, MaxPoints}

Batches == UNION {[1..n -> Elements] : n \in 0..MaxBatch}

Abs(i) == IF i < 0 THEN -i ELSE i

Max(a, b) == IF a > b THEN a ELSE b

Min(a, b) == IF a < b THEN a ELSE b

\* the caller's distance functions: |a - b|, and a quantised one that is no
\* metric (neighbouring elements are at distance 0)
distFun(f, a, b) == IF f = "abs" THEN Abs(a - b) ELSE Abs(a - b) \div 2

\* FLANNDistance::operator(): calls the store's distFun_ through a reference
FLANNDistance(s, a, b) == distFun(s.distFun_, a, b)

\* ------------------------------------------------------------------ state
VARIABLES nn, fr, phase, bag, count

vars == <<nn, fr, phase, bag, count>>

\* index_ = 0
NULL == [present |-> FALSE, pts |-> <<>>, removed |-> {}, params |-> "none", dist |-> "none"]

\* the constructor: index_(0), params_(params), searchParams_(32, 0., true)
NearestNeighborsFLANN(params, dist) ==
    [data_ |-> <<>>, len |-> 0, old |-> <<>>, index_ |-> NULL, params_ |-> params,
     searchParams_ |-> [checks |-> DefaultChecks], distFun_ |-> dist, crashed |-> FALSE]

capacity(s) == Len(s.data_)

\* ------------------------------------------------- the FLANN index (exact)
\* flann::Matrix<_T>(&data_[first], rows, dimension_): rows addresses
Matrix(first, rows) == [i \in 1..rows |-> [blk |-> "cur", slot |-> first + i]]

Live(s) == {i \in 1..Len(s.index_.pts) : i \notin s.index_.removed}

\* index_->size(): points not removed
IndexSize(s) == Cardinality(Live(s))

\* *index_->getPoint(id): the element at the address the point holds; the
\* removed mark is not looked at
getPoint(s, id) ==
    LET p == s.index_.pts[id]
    IN IF p.blk = "cur" THEN s.data_[p.slot] ELSE s.old[p.slot]

Closer(s, q, i, j) ==
    LET di == FLANNDistance(s, getPoint(s, i), q)
        dj == FLANNDistance(s, getPoint(s, j), q)
    IN di < dj \/ (di = dj /\ i < j)

Rank(s, q, i) == Cardinality({j \in Live(s) : Closer(s, q, j, i)})

\* index_->knnSearch(query, indices, dists, k, searchParams_): indices[0]
knnSearch(s, q, k) ==
    [r \in 1..Min(k, IndexSize(s)) |-> CHOOSE i \in Live(s) : Rank(s, q, i) = r - 1]

\* index_->radiusSearch(query, indices, dists, radius, searchParams_): indices[0]
radiusSearch(s, q, radius) ==
    knnSearch(s, q, Cardinality({i \in Live(s) : FLANNDistance(s, getPoint(s, i), q) <= radius}))

\* index_->addPoints(mat, ...)
addPoints(s, mat) == [s EXCEPT !.index_.pts = @ \o mat]

\* index_->removePoint(id)
removePoint(s, id) == [s EXCEPT !.index_.removed = @ \cup {id}]

\* ------------------------------------------------------------ std::vector
\* data_.push_back(x): when size() = capacity() the block is reallocated and
\* the old one freed; the addresses a live index holds then point into it
push_back(s, x) ==
    IF s.len < capacity(s)
    THEN [s EXCEPT !.data_[s.len + 1] = x, !.len = @ + 1]
    ELSE LET newCap == IF capacity(s) = 0 THEN 1 ELSE 2 * capacity(s)
             block == [i \in 1..newCap |->
                         IF i <= s.len THEN s.data_[i]
                         ELSE IF i = s.len + 1 THEN x ELSE Raw]
         IN IF s.index_.present
            THEN [s EXCEPT !.data_ = block, !.len = @ + 1, !.old = s.data_,
                           !.index_.pts = [i \in 1..Len(@) |-> [blk |-> "old", slot |-> @[i].slot]]]
            ELSE [s EXCEPT !.data_ = block, !.len = @ + 1]

\* data_.reserve(n)
reserve(s, n) ==
    IF n > capacity(s)
    THEN [s EXCEPT !.data_ = [i \in 1..n |-> IF i <= s.len THEN s.data_[i] ELSE Raw]]
    ELSE s

\* data_ = xs
assign(s, xs) ==
    [s EXCEPT !.data_ = [i \in 1..Max(capacity(s), Len(xs)) |->
                            IF i <= Len(xs) THEN xs[i] ELSE Raw],
              !.len = Len(xs)]

\* std::copy(xs.begin(), xs.end(), data_.begin() + at): writes the slots,
\* size() is not changed
copy(s, xs, at) ==
    [s EXCEPT !.data_ = [i \in 1..Len(@) |->
                            IF i > at /\ i <= at + Len(xs) THEN xs[i - at] ELSE @[i]]]

\* ------------------------------------------------------------- the wrapper
size(s) == IF s.index_.present THEN IndexSize(s) ELSE 0

clear(s) ==
    [s EXCEPT !.index_ = NULL,
              !.data_ = [i \in 1..Len(@) |-> Raw],
              !.len = 0,
              !.old = <<>>]

createIndex(s, mat) ==
    [s EXCEPT !.index_ = [present |-> TRUE, pts |-> mat, removed |-> {},
                          params |-> s.params_, dist |-> s.distFun_]]

\* nearest with its guard on index_ instead of size()
nearest_checksIndex(s, x) ==
    IF s.index_.present
    THEN LET indices == knnSearch(s, x, 1)
         IN IF indices = <<>>
            THEN [nn |-> [s EXCEPT !.crashed = TRUE], ok |-> TRUE, ret |-> Raw]
            ELSE [nn |-> s, ok |-> TRUE, ret |-> getPoint(s, indices[1])]
    ELSE [nn |-> s, ok |-> FALSE, ret |-> Raw]

nearest(s, x) ==
    IF size(s) > 0
    THEN [nn |-> s, ok |-> TRUE, ret |-> getPoint(s, knnSearch(s, x, 1)[1])]
    ELSE [nn |-> s, ok |-> FALSE, ret |-> Raw]

nearestK(s, x, k) ==
    LET indices == IF s.index_.present THEN knnSearch(s, x, k) ELSE <<>>
    IN [nn |-> s, ret |-> [i \in 1..Len(indices) |-> getPoint(s, indices[i])]]

nearestR(s, x, radius) ==
    LET indices == IF s.index_.present THEN radiusSearch(s, x, radius) ELSE <<>>
    IN [nn |-> s, ret |-> [i \in 1..Len(indices) |-> getPoint(s, indices[i])]]

\* list that leaves searchParams_.checks at size()
list_noRestore(s) ==
    LET sz == size(s)
    IN IF sz = 0
       THEN [nn |-> s, ret |-> <<>>]
       ELSE LET r == nearestK([s EXCEPT !.searchParams_.checks = size(s)],
                              getPoint(s, 1), sz)
            IN [nn |-> r.nn, ret |-> r.ret]

\* list(), position 0 of the index: the point its anchor is read from
listAnchor(s) == 1

\* list(), the store as nearestK sees it: searchParams_.checks = size()
listQuery(s) == [s EXCEPT !.searchParams_.checks = size(s)]

list(s) ==
    LET sz == size(s)
    IN IF sz = 0
       THEN [nn |-> s, ret |-> <<>>]
       ELSE LET dummy == getPoint(s, listAnchor(s))
                checks == s.searchParams_.checks
                r == nearestK(listQuery(s), dummy, sz)
            IN [nn |-> [r.nn EXCEPT !.searchParams_.checks = checks], ret |-> r.ret]

\* add(const std::vector<_T>&), its local rebuild
addVecRebuild(s, xs) == s.index_.present /\ s.len + Len(xs) > capacity(s)

RECURSIVE addVec(_, _), rebuildIndex(_, _)

\* rebuildIndex without its clear()
rebuildIndexCleared_noClear(s, cap) ==
    IF cap > 0 THEN reserve(s, cap) ELSE s

\* rebuildIndex after list(data), up to its call of add(data): the store
\* add(data) is given
rebuildIndexCleared(s, cap) ==
    LET c == clear(s)
    IN IF cap > 0 THEN reserve(c, cap) ELSE c

rebuildIndex(s, cap) ==
    IF s.index_.present
    THEN LET l == list(s)
         IN addVec(rebuildIndexCleared(l.nn, cap), l.ret)
    ELSE s

\* add(const std::vector<_T>&), its first step: the rebuild that makes room
addVecGrow(s, xs) ==
    LET oldSize == s.len
        newSize == oldSize + Len(xs)
    IN IF addVecRebuild(s, xs) THEN rebuildIndex(s, Max(2 * oldSize, newSize)) ELSE s

\* add(const std::vector<_T>&): oldSize is read before the rebuild
addVec(s, xs) ==
    LET oldSize == s.len
        g == addVecGrow(s, xs)
    IN IF g.index_.present
       THEN addPoints(copy(g, xs, oldSize), Matrix(oldSize, Len(xs)))
       ELSE LET a == assign(g, xs) IN createIndex(a, Matrix(0, a.len))

\* the number of rebuildIndex calls add(const std::vector<_T>&) makes,
\* those of the add(data) inside rebuildIndex included
RECURSIVE addVecRebuilds(_, _)
addVecRebuilds(s, xs) ==
    IF addVecRebuild(s, xs)
    THEN 1 + addVecRebuilds(rebuildIndexCleared(s, Max(2 * s.len, s.len + Len(xs))),
                            list(s).ret)
    ELSE 0

\* add(const _T&) that never rebuilds before push_back
addGrow_noRebuild(s) == s

\* add(const _T&), its first step: the rebuild that makes room
addGrow(s) ==
    LET rebuild == s.index_.present /\ s.len + 1 > capacity(s)
    IN IF rebuild THEN rebuildIndex(s, 2 * capacity(s)) ELSE s

\* add(const _T&)
add(s, x) ==
    LET p == push_back(addGrow(s), x)
    IN IF p.index_.present
       THEN addPoints(p, Matrix(p.len - 1, 1))
       ELSE createIndex(p, Matrix(p.len - 1, 1))

\* remove that rebuilds without index_->removePoint
remove_keepsPoint(s, x) ==
    IF ~s.index_.present
    THEN [nn |-> s, ret |-> FALSE, read |-> FALSE]
    ELSE LET indices == knnSearch(s, x, 1)
         IN IF indices = <<>>
            THEN [nn |-> [s EXCEPT !.crashed = TRUE], ret |-> FALSE, read |-> TRUE]
            ELSE IF getPoint(s, indices[1]) = x
                 THEN [nn |-> rebuildIndex(s, 0), ret |-> TRUE, read |-> TRUE]
                 ELSE [nn |-> s, ret |-> FALSE, read |-> TRUE]

\* remove that does not compare the nearest point with the element
remove_nearest(s, x) ==
    IF ~s.index_.present
    THEN [nn |-> s, ret |-> FALSE, read |-> FALSE]
    ELSE LET indices == knnSearch(s, x, 1)
         IN IF indices = <<>>
            THEN [nn |-> [s EXCEPT !.crashed = TRUE], ret |-> FALSE, read |-> TRUE]
            ELSE [nn |-> rebuildIndex(removePoint(s, indices[1]), 0),
                  ret |-> TRUE, read |-> TRUE]

\* remove, after index_->removePoint(indices[0][0]): the store its
\* rebuildIndex() is called on
removeMarked(s, x) == removePoint(s, knnSearch(s, x, 1)[1])

\* remove: read is whether indices[0][0] was read.  On an index that holds no
\* point knnSearch leaves indices[0] empty, and reading indices[0][0] is a
\* read through the vector's null begin pointer: the process is killed
remove(s, x) ==
    IF ~s.index_.present
    THEN [nn |-> s, ret |-> FALSE, read |-> FALSE]
    ELSE LET indices == knnSearch(s, x, 1)
         IN IF indices = <<>>
            THEN [nn |-> [s EXCEPT !.crashed = TRUE], ret |-> FALSE, read |-> TRUE]
            ELSE IF getPoint(s, indices[1]) = x
                 THEN [nn |-> rebuildIndex(removeMarked(s, x), 0),
                       ret |-> TRUE, read |-> TRUE]
                 ELSE [nn |-> s, ret |-> FALSE, read |-> TRUE]

\* NearestNeighbors<_T>::setDistanceFunction(distFun); rebuildIndex()
setDistanceFunction(s, f) == rebuildIndex([s EXCEPT !.distFun_ = f], 0)

\* setIndexParams without the rebuild
setIndexParams_noRebuild(s, p) == [s EXCEPT !.params_ = p]

setIndexParams(s, p) == rebuildIndex([s EXCEPT !.params_ = p], 0)

setSearchParams(s, c) == [s EXCEPT !.searchParams_ = [checks |-> c]]

\* the statements of createIndex that may throw
FailPoints == {"new", "buildIndex"}

\* createIndex when the backend throws: in new flann::Index(...) index_ is
\* not assigned; in index_->buildIndex() it already is
createIndexThrows(s, mat, at) ==
    IF at = "new" THEN s ELSE createIndex(s, mat)

\* add(const _T&) on a store without index whose createIndex throws
addThrows(s, x, at) ==
    LET p == push_back(addGrow(s), x)
    IN createIndexThrows(p, Matrix(p.len - 1, 1), at)

\* add(const std::vector<_T>&) on a store without index whose createIndex
\* throws
addVecThrows(s, xs, at) ==
    LET a == assign(addVecGrow(s, xs), xs)
    IN createIndexThrows(a, Matrix(0, a.len), at)

\* ------------------------------------------------------------ bookkeeping
EmptyBag == [e \in Elements |-> 0]

RECURSIVE BagOfSeq(_)
BagOfSeq(xs) ==
    IF xs = <<>> THEN EmptyBag
    ELSE LET b == BagOfSeq(Tail(xs)) IN [b EXCEPT ![Head(xs)] = @ + 1]

BagPlus(a, b) == [e \in Elements |-> a[e] + b[e]]

\* what list() returns, as a bag
Stored(s) == BagOfSeq(list(s).ret)

\* bag is the bag of the elements added and not removed (remove returned
\* true) since construction or clear(), for as long as list() has returned
\* exactly that; from the first step after which it does not, bag is Lost.
\* count is the number of elements added minus the number of removes that
\* returned true, since construction or clear()
Lost == [e \in Elements |-> -1]

Track(b, s) == IF b # Lost /\ (s.crashed \/ b = Stored(s)) THEN b ELSE Lost

\* what a freed block may hold when it is read later: anything
Freed(s) ==
    IF s.old = <<>> THEN {s} ELSE {[s EXCEPT !.old = o] : o \in [1..Len(s.old) -> Elements]}

\* ---------------------------------------------------------------- actions
Start(ph) ==
    /\ \E p \in IndexParams, f \in DistanceFunctions :
          /\ nn = NearestNeighborsFLANN(p, f)
          /\ fr = NearestNeighborsFLANN(p, f)
    /\ phase = ph
    /\ bag = EmptyBag
    /\ count = 0

Init == Start("run")

Running == ~nn.crashed

AddUpTo(limit) ==
    /\ Running
    /\ size(nn) + 1 <= limit
    /\ \E x \in Elements :
          /\ nn' \in Freed(add(nn, x))
          /\ bag' = Track([bag EXCEPT ![x] = @ + 1], nn')
    /\ count' = count + 1
    /\ UNCHANGED <<fr, phase>>

AddVecUpTo(limit) ==
    /\ Running
    /\ \E xs \in Batches :
          /\ size(nn) + Len(xs) <= limit
          /\ nn' = addVec(nn, xs)
          /\ bag' = Track(BagPlus(bag, BagOfSeq(xs)), nn')
          /\ count' = count + Len(xs)
    /\ UNCHANGED <<fr, phase>>

Add == AddUpTo(MaxPoints)

AddVec == AddVecUpTo(MaxPoints)

Remove ==
    /\ Running
    /\ \E x \in Elements :
          LET r == remove(nn, x)
          IN /\ nn' = r.nn
             /\ bag' = Track(IF r.ret THEN [bag EXCEPT ![x] = @ - 1] ELSE bag, nn')
             /\ count' = IF r.ret THEN count - 1 ELSE count
    /\ UNCHANGED <<fr, phase>>

Clear ==
    /\ Running
    /\ nn' = clear(nn)
    /\ bag' = EmptyBag
    /\ count' = 0
    /\ UNCHANGED <<fr, phase>>

Nearest ==
    /\ Running
    /\ \E x \in Elements : nn' = nearest(nn, x).nn
    /\ UNCHANGED <<fr, phase, bag, count>>

NearestK ==
    /\ Running
    /\ \E x \in Elements, k \in Ks : nn' = nearestK(nn, x, k).nn
    /\ UNCHANGED <<fr, phase, bag, count>>

NearestR ==
    /\ Running
    /\ \E x \in Elements, radius \in Radii : nn' = nearestR(nn, x, radius).nn
    /\ UNCHANGED <<fr, phase, bag, count>>

List ==
    /\ Running
    /\ nn' = list(nn).nn
    /\ UNCHANGED <<fr, phase, bag, count>>

Next ==
    \/ Add
    \/ AddVec
    \/ Remove
    \/ Clear
    \/ Nearest
    \/ NearestK
    \/ NearestR
    \/ List

Spec == Init /\ [][Next]_vars

\* ----------------------------------------- runs of add(const _T&) alone
InitGrow == Start("grow")

GrowAdd == AddUpTo(MaxGrow)

NextGrow ==
    \/ GrowAdd
    \/ List

SpecGrow == InitGrow /\ [][NextGrow]_vars

\* ------------------------------------- runs that change the configuration
InitConfig == Start("config")

\* phase becomes "reconfigured" at the first setDistanceFunction or
\* setIndexParams on a store that holds elements
Reconfigured == IF size(nn) > 0 THEN "reconfigured" ELSE phase

ConfigAdd == AddUpTo(MaxConfig)

ConfigAddVec == AddVecUpTo(MaxConfig)

SetDistanceFunction ==
    /\ Running
    /\ \E f \in DistanceFunctions : nn' = setDistanceFunction(nn, f)
    /\ bag' = Track(bag, nn')
    /\ phase' = Reconfigured
    /\ UNCHANGED <<fr, count>>

SetIndexParams ==
    /\ Running
    /\ \E p \in IndexParams : nn' = setIndexParams(nn, p)
    /\ bag' = Track(bag, nn')
    /\ phase' = Reconfigured
    /\ UNCHANGED <<fr, count>>

SetSearchParams ==
    /\ Running
    /\ \E c \in ChecksValues : nn' = setSearchParams(nn, c)
    /\ UNCHANGED <<fr, phase, bag, count>>

NextConfig ==
    \/ ConfigAdd
    \/ ConfigAddVec
    \/ Remove
    \/ Clear
    \/ SetDistanceFunction
    \/ SetIndexParams

SpecConfig == InitConfig /\ [][NextConfig]_vars

\* ------------------- runs that compare a cleared store with a fresh one
\* nn is populated, then cleared; from then on nn and the freshly constructed
\* fr are given the same calls.  In these runs a block that push_back frees
\* under the index keeps what it held (one of the outcomes of reading it), so
\* that the two stores differ by nothing but the capacity nn retained
InitTrip == Start("populate")

TripPopulate ==
    /\ phase = "populate"
    /\ (AddUpTo(MaxFill) \/ AddVecUpTo(MaxFill))

TripClear ==
    /\ phase = "populate"
    /\ Running
    /\ nn' = clear(nn)
    /\ phase' = "drive"
    /\ bag' = EmptyBag
    /\ count' = 0
    /\ UNCHANGED fr

Driving == phase = "drive" /\ Running /\ ~fr.crashed

TripAdd ==
    /\ Driving
    /\ size(fr) + 1 <= MaxTrip
    /\ size(nn) + 1 <= MaxTrip
    /\ \E x \in Elements :
          /\ nn' = add(nn, x)
          /\ fr' = add(fr, x)
          /\ bag' = Track([bag EXCEPT ![x] = @ + 1], nn')
    /\ count' = count + 1
    /\ UNCHANGED phase

TripAddVec ==
    /\ Driving
    /\ \E xs \in Batches :
          /\ size(fr) + Len(xs) <= MaxTrip
          /\ size(nn) + Len(xs) <= MaxTrip
          /\ nn' = addVec(nn, xs)
          /\ fr' = addVec(fr, xs)
          /\ bag' = Track(BagPlus(bag, BagOfSeq(xs)), nn')
          /\ count' = count + Len(xs)
    /\ UNCHANGED phase

TripRemove ==
    /\ Driving
    /\ \E x \in Elements :
          LET r == remove(nn, x)
          IN /\ nn' = r.nn
             /\ fr' = remove(fr, x).nn
             /\ bag' = Track(IF r.ret THEN [bag EXCEPT ![x] = @ - 1] ELSE bag, nn')
             /\ count' = IF r.ret THEN count - 1 ELSE count
    /\ UNCHANGED phase

NextTrip ==
    \/ TripPopulate
    \/ TripClear
    \/ TripAdd
    \/ TripAddVec
    \/ TripRemove

SpecTrip == InitTrip /\ [][NextTrip]_vars

\* what the queries of a store return
Observed(s) ==
    IF s.crashed
    THEN [crashed |-> TRUE]
    ELSE [crashed |-> FALSE,
          size |-> size(s),
          list |-> list(s).ret,
          nearest |-> [x \in Elements |-> <<nearest(s, x).ok, nearest(s, x).ret>>],
          nearestK |-> [x \in Elements |-> [k \in 1..MaxTrip |-> nearestK(s, x, k).ret]],
          nearestR |-> [x \in Elements |-> [radius \in Radii |-> nearestR(s, x, radius).ret]]]

\* --------------------------------- runs that change the search parameters
InitParams == Start("params")

ParamsAdd == AddUpTo(MaxParams)

ParamsAddVec == AddVecUpTo(MaxParams)

NextParams ==
    \/ ParamsAdd
    \/ ParamsAddVec
    \/ Remove
    \/ SetSearchParams
    \/ List

SpecParams == InitParams /\ [][NextParams]_vars

\* ------------------------------- runs in which the backend fails to build
\* the run is followed up to the call whose createIndex throws
InitFail == Start("fail")

FailCalls ==
    /\ phase = "fail"
    /\ (Add \/ AddVec \/ Remove \/ Clear)

AddThrows ==
    /\ phase = "fail"
    /\ Running
    /\ ~nn.index_.present
    /\ \E x \in Elements, at \in FailPoints : nn' = addThrows(nn, x, at)
    /\ phase' = "failed"
    /\ UNCHANGED <<fr, bag, count>>

AddVecThrows ==
    /\ phase = "fail"
    /\ Running
    /\ ~nn.index_.present
    /\ \E xs \in Batches, at \in FailPoints : nn' = addVecThrows(nn, xs, at)
    /\ phase' = "failed"
    /\ UNCHANGED <<fr, bag, count>>

NextFail ==
    \/ FailCalls
    \/ AddThrows
    \/ AddVecThrows

SpecFail == InitFail /\ [][NextFail]_vars

\* ------------------------------------------------------------- the claims
\* C1: after any sequence of add(element), add(sequence) and remove(element)
\* calls, list() returns, as a bag, exactly the elements added minus those
\* whose remove returned true.
C1_ListIsAddedMinusRemoved == Running => Stored(nn) = bag

\* C2: when the index is present it indexes exactly the buffer's logical
\* range: as many points as size() of the buffer, every slot below the length
\* referenced by exactly one point, no point at or beyond the length.
C2_IndexMatchesBuffer ==
    nn.index_.present =>
        /\ IndexSize(nn) = nn.len
        /\ \A i \in 1..Len(nn.index_.pts) :
              nn.index_.pts[i].blk = "cur" /\ nn.index_.pts[i].slot <= nn.len
        /\ \A k \in 1..nn.len :
              Cardinality({i \in Live(nn) : nn.index_.pts[i].slot = k}) = 1

\* C3: size() equals the number of elements added minus the number of remove
\* calls that returned true.
C3_SizeIsAddedMinusRemoved == size(nn) = count

\* a store built by adds (one of them a sequence added to an existing index)
\* from which a remove takes an element
C3_Witness ==
    /\ Running
    /\ count >= 2
    /\ nn.len < size(nn)
    /\ \E x \in Elements : remove(nn, x).ret /\ size(remove(nn, x).nn) = count - 1

\* C4: adding one element at a time from an empty store, across the rebuilds
\* that growth triggers, list() after each add is the bag of all the elements
\* added so far.
C4_GrowthKeepsElements == phase = "grow" => (bag # Lost /\ Stored(nn) = bag /\ size(nn) = count)

\* five elements added one at a time: the capacity went 1, 2, 4, 8
C4_Witness == phase = "grow" /\ nn.len = 5 /\ capacity(nn) = 8 /\ \A e \in Elements : bag[e] > 0

C6_RemoveOnEmptyReturnsFalse ==
    \A x \in Elements :
        (Running /\ size(nn) = 0) =>
            remove(nn, x) = [nn |-> nn, ret |-> FALSE, read |-> FALSE]

\* C7: in every state with size() = 0, nearest(x) fails with the empty-store
\* error, nearestK, nearestR and list() return an empty sequence, and none of
\* the four changes the store.
C7_EmptyQueries ==
    (Running /\ size(nn) = 0) =>
        /\ \A x \in Elements : nearest(nn, x) = [nn |-> nn, ok |-> FALSE, ret |-> Raw]
        /\ \A x \in Elements, k \in 1..MaxPoints : nearestK(nn, x, k) = [nn |-> nn, ret |-> <<>>]
        /\ \A x \in Elements, radius \in Radii : nearestR(nn, x, radius) = [nn |-> nn, ret |-> <<>>]
        /\ list(nn) = [nn |-> nn, ret |-> <<>>]

\* an empty store that still has an index (its last element was removed, or
\* it was given an empty sequence) and whose buffer has capacity
C7_Witness ==
    /\ Running
    /\ size(nn) = 0
    /\ nn.index_.present
    /\ capacity(nn) > 0
    /\ \A x \in Elements : ~nearest(nn, x).ok

\* C8: when add(element) or add(sequence) appends while an index exists, the
\* buffer has room: the points indexed plus the new ones are at most the
\* capacity, and push_back does not reallocate the buffer under the index.
C8_AddHasRoom ==
    Running =>
        /\ nn.old = <<>>
        /\ LET g == addGrow(nn)
           IN g.index_.present => (size(g) + 1 <= capacity(g) /\ g.len + 1 <= capacity(g))
        /\ \A xs \in Batches :
              LET g == addVecGrow(nn, xs)
              IN g.index_.present => size(g) + Len(xs) <= capacity(g)

\* C9: a store that was populated, then cleared, then given a sequence of
\* add(element), add(sequence) and remove calls returns from nearest,
\* nearestK, nearestR, list and size what a freshly constructed store given
\* the same sequence returns.
C9_ClearedLikeFresh == phase = "drive" => Observed(nn) = Observed(fr)

\* C10: the index present was built with the IndexParams and the distance
\* function now configured, and setDistanceFunction and setIndexParams keep
\* the bag of stored elements.
C10_IndexBuiltWithCurrentConfig ==
    Running =>
        /\ nn.index_.present =>
              (nn.index_.params = nn.params_ /\ nn.index_.dist = nn.distFun_)
        /\ \A f \in DistanceFunctions : Stored(setDistanceFunction(nn, f)) = Stored(nn)
        /\ \A p \in IndexParams : Stored(setIndexParams(nn, p)) = Stored(nn)

\* a store of two elements whose configuration was replaced while it held
\* elements
C10_Witness ==
    /\ phase = "reconfigured"
    /\ size(nn) = 2
    /\ nn.index_.params = "KDTree"
    /\ nn.index_.dist = "coarse"

\* C11: after an add(element) or add(sequence) on a store without index
\* whose index construction failed, the store is as before the call: the
\* buffer's length is 0, no index is present and size() is 0.
C11_FailedFreshBuildLeavesEmpty ==
    phase = "failed" => (nn.len = 0 /\ ~nn.index_.present /\ size(nn) = 0)

\* C12: nearest(y) for a y that was added and not removed returns an element
\* equal to y when no other stored element is strictly closer to y.  Stated
\* for the store after one more add(x), in the states where list() still is
\* the bag added, and for the distance |a - b|, under which distinct
\* elements are never tied.
C12_NearestOfStoredIsItself ==
    (Running /\ bag # Lost /\ nn.distFun_ = "abs") =>
        \A x, y \in Elements :
            LET s == add(nn, x)
                stored == [bag EXCEPT ![x] = @ + 1]
                closer == {e \in Elements : stored[e] > 0 /\ e # y
                              /\ distFun(s.distFun_, e, y) < distFun(s.distFun_, y, y)}
            IN (stored[y] > 0 /\ closer = {}) =>
                   (nearest(s, y).ok /\ nearest(s, y).ret = y)

\* C13: nearestK(q, k) returns min(k, size()) elements in non-decreasing
\* order of distance from q, and for k >= size() exactly the bag of the
\* elements added and not removed.  Stated for the store after one more
\* add(x), in the states where list() still is the bag added.
C13_NearestKSortedAndComplete ==
    (Running /\ bag # Lost) =>
        \A x, q \in Elements, k \in 0..(MaxPoints + 1) :
            LET s == add(nn, x)
                stored == [bag EXCEPT ![x] = @ + 1]
                r == nearestK(s, q, k).ret
            IN /\ Len(r) = Min(k, size(s))
               /\ \A i \in 1..(Len(r) - 1) :
                     distFun(s.distFun_, r[i], q) <= distFun(s.distFun_, r[i + 1], q)
               /\ k >= size(s) => BagOfSeq(r) = stored

\* C14: nearestR(q, radius) returns exactly the elements added and not
\* removed whose distance to q is at most radius.  Stated for the store
\* after one more add(x), in the states where list() still is the bag added.
C14_NearestRExact ==
    (Running /\ bag # Lost) =>
        \A x, q \in Elements, radius \in Radii :
            LET s == add(nn, x)
                stored == [bag EXCEPT ![x] = @ + 1]
            IN BagOfSeq(nearestR(s, q, radius).ret) =
                   [e \in Elements |->
                       IF distFun(s.distFun_, e, q) <= radius THEN stored[e] ELSE 0]

\* C15: whenever size() is 0 no index is present (index_ is null), also
\* after remove took the last element and after add of an empty sequence.
C15_NoIndexWhenEmpty == (Running /\ size(nn) = 0) => ~nn.index_.present

\* C16: add(sequence) with an index present and more elements than the
\* capacity holds (elements stored before the call plus the batch) rebuilds
\* exactly once and leaves a capacity of at least max(2 * stored, stored +
\* batch).
C16_BatchAddRebuildsOnce ==
    Running =>
        \A xs \in Batches :
            (nn.index_.present /\ size(nn) + Len(xs) > capacity(nn)) =>
                /\ addVecRebuilds(nn, xs) = 1
                /\ capacity(addVec(nn, xs)) >= Max(2 * size(nn), size(nn) + Len(xs))

\* C17: after every operation the buffer's length is at most its capacity
\* and size() is at most the capacity, and no operation other than clear()
\* makes the capacity smaller.
C17_WithinCapacity ==
    [][/\ nn'.len <= capacity(nn')
       /\ size(nn') <= capacity(nn')
       /\ nn' # clear(nn) => capacity(nn') >= capacity(nn)]_vars

\* C18: list() leaves the search parameters as they were, called directly
\* and called from rebuildIndex; during its query searchParams_.checks is at
\* least size(); setSearchParams changes the search parameters and leaves
\* the buffer, the index and size() as they were.
C18_SearchParamsKept ==
    Running =>
        /\ list(nn).nn.searchParams_ = nn.searchParams_
        /\ rebuildIndex(nn, 0).searchParams_ = nn.searchParams_
        /\ size(nn) > 0 => listQuery(nn).searchParams_.checks >= size(nn)
        /\ \A c \in ChecksValues :
              LET r == setSearchParams(nn, c)
              IN /\ r.searchParams_.checks = c
                 /\ r.data_ = nn.data_ /\ r.len = nn.len
                 /\ r.index_ = nn.index_ /\ size(r) = size(nn)

\* a store of elements whose checks were set to another value than the
\* default and than size()
C18_Witness ==
    /\ Running
    /\ phase = "params"
    /\ size(nn) >= 2
    /\ nn.searchParams_.checks # DefaultChecks
    /\ nn.searchParams_.checks # size(nn)
    /\ Len(list(nn).ret) = size(nn)

\* the capacities rebuildIndex is called with: by remove and the setters, by
\* add(const _T&), by add(const std::vector<_T>&)
RebuildCapacities(s) ==
    {0, 2 * capacity(s)} \cup {Max(2 * s.len, s.len + Len(xs)) : xs \in Batches}

\* C19: the add(data) inside rebuildIndex runs on a store without index and
\* makes no rebuildIndex call of its own, so that a public call makes at
\* most one rebuild.
C19_RebuildNotNested ==
    Running =>
        /\ \A cap \in RebuildCapacities(nn) :
              /\ ~rebuildIndexCleared(nn, cap).index_.present
              /\ addVecRebuilds(rebuildIndexCleared(nn, cap), list(nn).ret) = 0
        /\ \A xs \in Batches : addVecRebuilds(nn, xs) <= 1

\* a store of elements on which both add(element) and add(sequence) rebuild
C19_Witness ==
    /\ Running
    /\ size(nn) >= 2
    /\ addGrow(nn) # nn
    /\ \E xs \in Batches : addVecRebuilds(nn, xs) = 1

\* C20: whenever list() makes its query (size() > 0), the point at position
\* 0 that it reads its anchor from is not marked removed; so it is in the
\* list() that rebuildIndex makes inside remove, after removePoint.
C20_ListAnchorIsStored ==
    Running =>
        /\ size(nn) > 0 => listAnchor(nn) \in Live(nn)
        /\ \A x \in Elements :
              (remove(nn, x).ret /\ size(removeMarked(nn, x)) > 0) =>
                  listAnchor(removeMarked(nn, x)) \in Live(removeMarked(nn, x))

====
